---- MODULE Spec2Model ----
(***************************************************************************)
(* A model of promis.geo.raster_band.RasterBand: construction, the index   *)
(* to Cartesian transform, the quadtree split, the image and CSV exports   *)
(* and the rasterization of a Gaussian mixture.                            *)
(*                                                                         *)
(* Metric quantities are exact rationals <<n, d>> (d > 0, lowest terms);   *)
(* Python's floats are modelled by the reals they approximate.  A numpy    *)
(* array is a view [buf, i0, j0, shape] on a buffer of the heap `buffers`, *)
(* so that basic slicing shares memory with the sliced array, as in numpy. *)
(***************************************************************************)
EXTENDS Integers, Sequences, FiniteSets, TLC

VARIABLES
    bands,      \* the RasterBand objects alive, keyed by their place in the split tree
    buffers,    \* the heap of numpy buffers: buffer id -> (index -> value)
    ret,        \* the outcome of the last call
    nwrites,    \* the number of cell assignments made so far
    file,       \* the text of the CSV file, as the pieces written to it
    saves,      \* the save_as_csv calls that produced `file`
    image,      \* the pixels of the last image to_image() returned
    cdf_calls,  \* the points at which each mixture component's cdf was called
    input,      \* the arguments of the constructor call to come
    frame       \* the locals of the from_gaussian_mixture call under way

vars == <<bands, buffers, ret, nwrites, file, saves, image, cdf_calls, input, frame>>

----------------------------------------------------------------------------
(* Bounds of the model *)

\* the largest number of cells per axis of a constructed band
MaxDim == 3

\* the largest width or height, in metres, of a constructed band
MaxExtent == 3

\* the largest number of cell assignments in a behaviour
MaxWrites == 1

\* the largest number of save_as_csv calls on one file
MaxSaves == 2

\* the largest number of cells per axis of a band turned into an image
MaxImageDim == 2

\* the largest cell value of a band turned into an image
MaxCellValue == 2

----------------------------------------------------------------------------
(* Exact rational arithmetic standing for Python's float arithmetic *)

Abs(n) == IF n < 0 THEN -n ELSE n

RECURSIVE GCD(_, _)
GCD(a, b) == IF b = 0 THEN a ELSE GCD(b, a % b)

\* the rational n / d in lowest terms with a positive denominator (d # 0)
Rat(n, d) ==
    LET g == GCD(Abs(n), Abs(d))
        s == IF d < 0 THEN -1 ELSE 1
    IN  <<(s * n) \div g, (s * d) \div g>>

RInt(k) == <<k, 1>>
RAdd(x, y) == Rat(x[1] * y[2] + y[1] * x[2], x[2] * y[2])
RSub(x, y) == Rat(x[1] * y[2] - y[1] * x[2], x[2] * y[2])
RMul(x, y) == Rat(x[1] * y[1], x[2] * y[2])
RDiv(x, y) == Rat(x[1] * y[2], x[2] * y[1])
RNeg(x) == <<-x[1], x[2]>>
RLt(x, y) == x[1] * y[2] < y[1] * x[2]
RLe(x, y) == x[1] * y[2] <= y[1] * x[2]
RZero == RInt(0)

\* Python's  x % 2 != 0  on a number: x is not an even integer
NotMultipleOfTwo(x) == ~(x[2] = 1 /\ x[1] % 2 = 0)

----------------------------------------------------------------------------
(* Locations *)

CartesianLocation(east, north) == [east |-> east, north |-> north]

\* CartesianLocation.to_polar(origin): the geodetic point that lies at the
\* metric offset `location` from the anchor `origin`.  The conversion is left
\* uninterpreted: a geodetic point is named by how it was obtained.
to_polar(location, origin) == [anchor |-> origin, offset |-> location]

\* the geodetic origin handed to a constructor
Origin == [polar |-> "origin"]

\* polar_location.latitude, polar_location.longitude
Latitude(polar_location) == [latitude |-> polar_location]
Longitude(polar_location) == [longitude |-> polar_location]

----------------------------------------------------------------------------
(* numpy arrays as views on buffers *)

Indices(shape) == (0 .. shape[1] - 1) \X (0 .. shape[2] - 1)

\* a[ilo:ihi, jlo:jhi]: basic slicing gives a view on the same buffer
Slice(a, ilo, ihi, jlo, jhi) ==
    [buf |-> a.buf, i0 |-> a.i0 + ilo, j0 |-> a.j0 + jlo,
     shape |-> <<ihi - ilo, jhi - jlo>>]

\* a[index], read through the heap `heap`
Item(heap, a, index) == heap[a.buf][<<a.i0 + index[1], a.j0 + index[2]>>]

\* the contents of the array a as a function of its own indices
Contents(heap, a) == [index \in Indices(a.shape) |-> Item(heap, a, index)]

----------------------------------------------------------------------------
(* RasterBand *)

index_to_cartesian_flipped(self, index) ==
    CartesianLocation(
        RSub(RAdd(RDiv(self.pixel_width, RInt(2)),
                  RMul(RInt(index[1]), self.pixel_width)),
             self.center_x),
        RSub(RAdd(RDiv(self.pixel_height, RInt(2)),
                  RMul(RInt(index[2]), self.pixel_height)),
             self.center_y))

index_to_cartesian(self, index) ==
    CartesianLocation(
        RSub(RAdd(RDiv(self.pixel_width, RInt(2)),
                  RMul(RInt(index[1]), self.pixel_width)),
             self.center_x),
        RAdd(RNeg(RAdd(RDiv(self.pixel_height, RInt(2)),
                       RMul(RInt(index[2]), self.pixel_height))),
             self.center_y))

index_to_polar(self, index) == to_polar(index_to_cartesian(self, index), self.origin)

\* RasterBand.__init__ divides by data.shape[0] and data.shape[1]
RaisesZeroDivision(data) == data.shape[1] = 0 \/ data.shape[2] = 0

\* RasterBand.__init__ when it does not raise
RasterBand(data, origin, width, height) ==
    LET geometry ==
            [data |-> data, origin |-> origin, width |-> width, height |-> height,
             pixel_width |-> RDiv(width, RInt(data.shape[1])),
             pixel_height |-> RDiv(height, RInt(data.shape[2])),
             center_x |-> RDiv(width, RInt(2)),
             center_y |-> RDiv(height, RInt(2))]
    IN  geometry @@
        [cartesian_locations |->
            [index \in Indices(data.shape) |-> index_to_cartesian(geometry, index)],
         polar_locations |->
            [index \in Indices(data.shape) |-> index_to_polar(geometry, index)]]

----------------------------------------------------------------------------
(* RasterBand.split *)

is_leaf_both(self) == self.data.shape[1] = 1 /\ self.data.shape[2] = 1

is_leaf(self) == self.data.shape[1] = 1 \/ self.data.shape[2] = 1

data_split_x(self) == self.data.shape[1] \div 2
data_split_y(self) == self.data.shape[2] \div 2

Two == RInt(2)
Four == RInt(4)

left_width(self) ==
    IF NotMultipleOfTwo(self.width)
    THEN RDiv(RSub(self.width, self.pixel_width), Two)
    ELSE RDiv(self.width, Two)

right_width_short(self) ==
    IF NotMultipleOfTwo(self.width)
    THEN RDiv(RSub(self.width, self.pixel_width), Two)
    ELSE RDiv(self.width, Two)

right_width(self) ==
    IF NotMultipleOfTwo(self.width)
    THEN RDiv(RAdd(self.width, self.pixel_width), Two)
    ELSE RDiv(self.width, Two)

origin_west(self) ==
    IF NotMultipleOfTwo(self.width)
    THEN RDiv(RNeg(RAdd(self.width, self.pixel_width)), Four)
    ELSE RNeg(RDiv(self.width, Four))

origin_east(self) ==
    IF NotMultipleOfTwo(self.width)
    THEN RDiv(RSub(self.width, self.pixel_width), Four)
    ELSE RDiv(self.width, Four)

top_height(self) ==
    IF NotMultipleOfTwo(self.height)
    THEN RDiv(RSub(self.height, self.pixel_height), Two)
    ELSE RDiv(self.height, Two)

bottom_height(self) ==
    IF NotMultipleOfTwo(self.height)
    THEN RDiv(RAdd(self.height, self.pixel_height), Two)
    ELSE RDiv(self.height, Two)

origin_north(self) ==
    IF NotMultipleOfTwo(self.height)
    THEN RDiv(RNeg(RSub(self.height, self.pixel_height)), Four)
    ELSE RNeg(RDiv(self.height, Four))

origin_south_negated(self) ==
    IF NotMultipleOfTwo(self.height)
    THEN RNeg(RDiv(RAdd(self.height, self.pixel_height), Four))
    ELSE RNeg(RDiv(self.height, Four))

origin_south(self) ==
    IF NotMultipleOfTwo(self.height)
    THEN RDiv(RAdd(self.height, self.pixel_height), Four)
    ELSE RDiv(self.height, Four)

\* the arguments of the four constructor calls, as split() lists them
QuadrantArgs(self) ==
    LET sx == data_split_x(self)
        sy == data_split_y(self)
        W == self.data.shape[1]
        H == self.data.shape[2]
    IN  <<
          <<
            [data |-> Slice(self.data, 0, sx, 0, sy),
             origin |-> to_polar(CartesianLocation(origin_west(self), origin_south(self)),
                                 self.origin),
             width |-> left_width(self), height |-> top_height(self)],
            [data |-> Slice(self.data, 0, sx, sy, H),
             origin |-> to_polar(CartesianLocation(origin_west(self), origin_north(self)),
                                 self.origin),
             width |-> left_width(self), height |-> bottom_height(self)]
          >>,
          <<
            [data |-> Slice(self.data, sx, W, 0, sy),
             origin |-> to_polar(CartesianLocation(origin_east(self), origin_south(self)),
                                 self.origin),
             width |-> right_width(self), height |-> top_height(self)],
            [data |-> Slice(self.data, sx, W, sy, H),
             origin |-> to_polar(CartesianLocation(origin_east(self), origin_north(self)),
                                 self.origin),
             width |-> right_width(self), height |-> bottom_height(self)]
          >>
        >>

\* split(): the band itself, the nested list of four new bands, or the
\* ZeroDivisionError of a constructor handed an empty slice
split(self) ==
    IF is_leaf(self)
    THEN [kind |-> "self"]
    ELSE LET args == QuadrantArgs(self)
         IN  IF \E a \in 1 .. 2, b \in 1 .. 2 : RaisesZeroDivision(args[a][b].data)
             THEN [kind |-> "raise"]
             ELSE [kind |-> "quads",
                   quads |-> [a \in 1 .. 2 |-> [b \in 1 .. 2 |->
                                RasterBand(args[a][b].data, args[a][b].origin,
                                           args[a][b].width, args[a][b].height)]]]

----------------------------------------------------------------------------
(* The split tree: a band is named by the path of quadrant positions that  *)
(* leads to it from the constructed band <<>>; position <<a, b>> is the    *)
(* element [a][b] of the list split() returned.                            *)

Root == <<>>
Child(p, a, b) == Append(p, <<a, b>>)
Quadrants == {0, 1} \X {0, 1}
HasQuadrants(p) == Child(p, 0, 0) \in DOMAIN bands

Extents == {RInt(k) : k \in 1 .. MaxExtent} \cup {RInt(10)}

\* a freshly allocated W x H array whose cells hold distinct values
NewArray(W, H) == [buf |-> 1, i0 |-> 0, j0 |-> 0, shape |-> <<W, H>>]
NewBuffer(W, H) == [index \in Indices(<<W, H>>) |-> index[1] * H + index[2]]

\* the variables an operation does not touch
Unused ==
    /\ nwrites = 0
    /\ file = <<>>
    /\ saves = <<>>
    /\ image = <<>>
    /\ cdf_calls = <<>>
    /\ input = [via |-> "none"]
    /\ frame = [pc |-> "idle"]

Init ==
    \E W \in 1 .. MaxDim, H \in 1 .. MaxDim, width \in Extents, height \in Extents :
        /\ buffers = <<NewBuffer(W, H)>>
        /\ bands = (Root :> RasterBand(NewArray(W, H),
                                       Origin, width, height))
        /\ ret = [kind |-> "none"]
        /\ Unused

\* band.split() on a band that has not been split before
Split(p) ==
    /\ ~HasQuadrants(p)
    /\ LET r == split(bands[p])
       IN  IF r.kind = "quads"
           THEN /\ bands' = bands @@
                            [c \in {Child(p, q[1], q[2]) : q \in Quadrants} |->
                                r.quads[c[Len(c)][1] + 1][c[Len(c)][2] + 1]]
                /\ ret' = [kind |-> "quads", of |-> p,
                           result |-> [a \in 1 .. 2 |-> [b \in 1 .. 2 |->
                                          Child(p, a - 1, b - 1)]]]
           ELSE /\ bands' = bands
                /\ ret' = [kind |-> r.kind, of |-> p, result |-> p]
    /\ UNCHANGED <<buffers, nwrites, file, saves, image, cdf_calls, input, frame>>

SplitStep == \E p \in DOMAIN bands : Split(p)

Next == SplitStep

Spec == Init /\ [][Next]_vars

----------------------------------------------------------------------------
(* Assignments to cells: band.data[index] = value writes through the view  *)
(* into the buffer it shares with every other view of that buffer.         *)

WriteValues == {-1}

SetItem(heap, a, index, value) ==
    [heap EXCEPT ![a.buf][<<a.i0 + index[1], a.j0 + index[2]>>] = value]

Write(p, index, value) ==
    /\ nwrites < MaxWrites
    /\ nwrites' = nwrites + 1
    /\ buffers' = SetItem(buffers, bands[p].data, index, value)
    /\ ret' = [kind |-> "write", of |-> p, result |-> index]
    /\ UNCHANGED <<bands, file, saves, image, cdf_calls, input, frame>>

WriteStep ==
    \E p \in DOMAIN bands : \E index \in Indices(bands[p].data.shape) :
        \E value \in WriteValues : Write(p, index, value)

NextWrite == SplitStep \/ WriteStep

SpecWrite == Init /\ [][NextWrite]_vars

----------------------------------------------------------------------------
(* Reading the split tree *)

Parents == {p \in DOMAIN bands : HasQuadrants(p)}
Quadrant(p, ab) == bands[Child(p, ab[1], ab[2])]
Cells(band) == band.data.shape[1] * band.data.shape[2]

\* a quadrant's origin is a metric offset converted with the parent's origin as anchor
Anchored(quadrant, parent) == quadrant.origin.anchor = parent.origin

\* the metric offset of a quadrant's origin from its parent's centre
Offset(quadrant, parent) == quadrant.origin.offset

\* the parent index of the cell that a quadrant holds at `index`
ParentIndex(quadrant, parent, index) ==
    <<index[1] + quadrant.data.i0 - parent.data.i0,
      index[2] + quadrant.data.j0 - parent.data.j0>>

Translate(location, by) ==
    CartesianLocation(RAdd(location.east, by.east), RAdd(location.north, by.north))

----------------------------------------------------------------------------
(* C1: the quadrants of every split keep the parent's pixel grid: they     *)
(* have the parent's pixel size, every quadrant cell's centre (origin      *)
(* offset plus the quadrant's index_to_cartesian) is the parent's          *)
(* index_to_cartesian of the cell it was sliced from, and the halves are   *)
(* (d - pixel)/2 and (d + pixel)/2 for an odd cell count, d/2 for an even. *)
C1_GridAligned ==
    \A p \in Parents :
        LET parent == bands[p]
            W == parent.data.shape[1]
            H == parent.data.shape[2]
            west == Quadrant(p, <<0, 0>>)
            east == Quadrant(p, <<1, 1>>)
        IN  /\ \A ab \in Quadrants :
                LET q == Quadrant(p, ab)
                IN  /\ Anchored(q, parent)
                    /\ q.pixel_width = parent.pixel_width
                    /\ q.pixel_height = parent.pixel_height
                    /\ \A index \in Indices(q.data.shape) :
                          Translate(index_to_cartesian(q, index), Offset(q, parent))
                              = index_to_cartesian(parent, ParentIndex(q, parent, index))
            /\ IF W % 2 = 1
               THEN {west.width, east.width} =
                        {RDiv(RSub(parent.width, parent.pixel_width), Two),
                         RDiv(RAdd(parent.width, parent.pixel_width), Two)}
               ELSE west.width = RDiv(parent.width, Two)
                    /\ east.width = RDiv(parent.width, Two)
            /\ IF H % 2 = 1
               THEN {west.height, east.height} =
                        {RDiv(RSub(parent.height, parent.pixel_height), Two),
                         RDiv(RAdd(parent.height, parent.pixel_height), Two)}
               ELSE west.height = RDiv(parent.height, Two)
                    /\ east.height = RDiv(parent.height, Two)

(* C2: split conservation: west width + east width is the parent's width,  *)
(* the two heights add up to the parent's height, no quadrant has an empty *)
(* dimension, the cell counts add up to W*H and every parent cell lies in  *)
(* exactly one quadrant.                                                   *)
C2_SplitConservation ==
    \A p \in Parents :
        LET parent == bands[p]
        IN  /\ \A b \in {0, 1} :
                RAdd(Quadrant(p, <<0, b>>).width, Quadrant(p, <<1, b>>).width)
                    = parent.width
            /\ \A a \in {0, 1} :
                RAdd(Quadrant(p, <<a, 0>>).height, Quadrant(p, <<a, 1>>).height)
                    = parent.height
            /\ \A ab \in Quadrants :
                /\ Quadrant(p, ab).data.shape[1] >= 1
                /\ Quadrant(p, ab).data.shape[2] >= 1
            /\ Cells(Quadrant(p, <<0, 0>>)) + Cells(Quadrant(p, <<0, 1>>))
                 + Cells(Quadrant(p, <<1, 0>>)) + Cells(Quadrant(p, <<1, 1>>))
                 = Cells(parent)
            /\ \A cell \in Indices(parent.data.shape) :
                Cardinality({ab \in Quadrants :
                    /\ Quadrant(p, ab).data.buf = parent.data.buf
                    /\ \E index \in Indices(Quadrant(p, ab).data.shape) :
                          ParentIndex(Quadrant(p, ab), parent, index) = cell}) = 1

\* a band with an odd number of columns and an odd width has been split
C2_Witness ==
    \E p \in Parents :
        /\ bands[p].data.shape[1] % 2 = 1
        /\ NotMultipleOfTwo(bands[p].width)
        /\ Cells(Quadrant(p, <<0, 0>>)) < Cells(Quadrant(p, <<1, 1>>))

\* r[a][*] lies west (a = 0) or east (a = 1) of the parent's centre
WestEast(p) ==
    \A b \in {0, 1} :
        /\ Anchored(Quadrant(p, <<0, b>>), bands[p])
        /\ Anchored(Quadrant(p, <<1, b>>), bands[p])
        /\ RLt(Offset(Quadrant(p, <<0, b>>), bands[p]).east, RZero)
        /\ RLt(RZero, Offset(Quadrant(p, <<1, b>>), bands[p]).east)
        /\ Quadrant(p, <<0, b>>).data.i0 < Quadrant(p, <<1, b>>).data.i0

(* C3 as stated: r = [[south-west, north-west], [south-east, north-east]]: *)
(* r[a][0] has its origin south of the parent's centre and holds the       *)
(* larger j, r[a][1] has its origin north of it and holds the smaller j.   *)
C3_SouthFirst ==
    \A p \in Parents :
        /\ WestEast(p)
        /\ \A a \in {0, 1} :
            /\ RLt(Offset(Quadrant(p, <<a, 0>>), bands[p]).north, RZero)
            /\ RLt(RZero, Offset(Quadrant(p, <<a, 1>>), bands[p]).north)
            /\ Quadrant(p, <<a, 0>>).data.j0 > Quadrant(p, <<a, 1>>).data.j0

(* C3 as amended: r = [[north-west, south-west], [north-east, south-east]]:*)
(* r[0][*] lie west and r[1][*] east of the parent's centre; r[a][0] has   *)
(* its origin north of the centre and holds the parent's northern cells    *)
(* (j < H div 2), r[a][1] has its origin south of it and holds the         *)
(* southern cells (j >= H div 2).                                          *)
C3_NorthFirst ==
    \A p \in Parents :
        /\ WestEast(p)
        /\ \A a \in {0, 1} :
            LET north == Quadrant(p, <<a, 0>>)
                south == Quadrant(p, <<a, 1>>)
                half == bands[p].data.shape[2] \div 2
            IN  /\ RLt(RZero, Offset(north, bands[p]).north)
                /\ RLt(Offset(south, bands[p]).north, RZero)
                /\ \A index \in Indices(north.data.shape) :
                      ParentIndex(north, bands[p], index)[2] < half
                /\ \A index \in Indices(south.data.shape) :
                      ParentIndex(south, bands[p], index)[2] >= half

\* split() has just returned the four quadrants of a band with 3 rows
C3_Witness ==
    /\ ret.kind = "quads"
    /\ bands[ret.of].data.shape[2] = 3
    /\ bands[ret.result[1][1]].data.shape[2] = 1
    /\ bands[ret.result[1][2]].data.shape[2] = 2

(* C4: split() of a band with W = 1 or H = 1 returns that band and creates *)
(* no quadrant; every other split gives four quadrants, each with at least *)
(* one cell per axis and strictly fewer cells than its parent, so a band   *)
(* at depth n of the tree has at most Cells(root) - n cells and repeated   *)
(* splitting ends.                                                         *)
C4_BaseCaseAndDescent ==
    /\ ret.kind \in {"none", "self", "quads"}
    /\ ret.kind = "self" =>
          /\ bands[ret.of].data.shape[1] = 1 \/ bands[ret.of].data.shape[2] = 1
          /\ ret.result = ret.of
          /\ ~HasQuadrants(ret.of)
    /\ ret.kind = "quads" =>
          /\ bands[ret.of].data.shape[1] >= 2
          /\ bands[ret.of].data.shape[2] >= 2
    /\ \A p \in Parents :
          /\ bands[p].data.shape[1] >= 2
          /\ bands[p].data.shape[2] >= 2
          /\ \A ab \in Quadrants :
                /\ Quadrant(p, ab).data.shape[1] >= 1
                /\ Quadrant(p, ab).data.shape[2] >= 1
                /\ Cells(Quadrant(p, ab)) < Cells(bands[p])
    /\ \A p \in DOMAIN bands : Len(p) + Cells(bands[p]) <= Cells(bands[Root])

\* split() has just returned a 1 x H band (H >= 2) that is a quadrant
C4_Witness ==
    /\ ret.kind = "self"
    /\ ret.of # Root
    /\ bands[ret.of].data.shape[1] = 1
    /\ bands[ret.of].data.shape[2] >= 2

(* C9: index_to_cartesian(i, j) is ((i + 1/2) pixel_width - width/2,       *)
(* height/2 - (j + 1/2) pixel_height); east grows with i, north falls with *)
(* j, every centre lies strictly inside the extent, the centres are        *)
(* symmetric about (0, 0), the cached cartesian_locations agree with it,   *)
(* and a 2 x 2 band of 10 m x 10 m has (0,0) at (-2.5, 2.5) and (1,1) at   *)
(* (2.5, -2.5).                                                            *)
C9_IndexToCartesian ==
    \A p \in DOMAIN bands :
        LET band == bands[p]
            W == band.data.shape[1]
            H == band.data.shape[2]
            halfW == RDiv(band.width, Two)
            halfH == RDiv(band.height, Two)
        IN  /\ \A index \in Indices(band.data.shape) :
                LET here == index_to_cartesian(band, index)
                    mirror == index_to_cartesian(band, <<W - 1 - index[1], H - 1 - index[2]>>)
                    eastward == index_to_cartesian(band, <<index[1] + 1, index[2]>>)
                    southward == index_to_cartesian(band, <<index[1], index[2] + 1>>)
                IN  /\ here.east =
                          RSub(RMul(Rat(2 * index[1] + 1, 2), RDiv(band.width, RInt(W))),
                               halfW)
                    /\ here.north =
                          RSub(halfH,
                               RMul(Rat(2 * index[2] + 1, 2), RDiv(band.height, RInt(H))))
                    /\ RLt(RNeg(halfW), here.east) /\ RLt(here.east, halfW)
                    /\ RLt(RNeg(halfH), here.north) /\ RLt(here.north, halfH)
                    /\ mirror = CartesianLocation(RNeg(here.east), RNeg(here.north))
                    /\ band.cartesian_locations[index] = here
                    /\ index[1] + 1 < W =>
                          RLt(here.east, eastward.east) /\ here.north = eastward.north
                    /\ index[2] + 1 < H =>
                          RLt(southward.north, here.north) /\ here.east = southward.east
            /\ (W = 2 /\ H = 2 /\ band.width = RInt(10) /\ band.height = RInt(10)) =>
                  /\ index_to_cartesian(band, <<0, 0>>)
                        = CartesianLocation(Rat(-5, 2), Rat(5, 2))
                  /\ index_to_cartesian(band, <<1, 1>>)
                        = CartesianLocation(Rat(5, 2), Rat(-5, 2))

\* split() has been called on the 2 x 2 band of 10 m x 10 m
C9_Witness ==
    /\ bands[Root].data.shape = <<2, 2>>
    /\ bands[Root].width = RInt(10) /\ bands[Root].height = RInt(10)
    /\ HasQuadrants(Root)

----------------------------------------------------------------------------
(* RasterBand.save_as_csv: the file is the sequence of the pieces written  *)
(* to it, a piece being a field of text or the newline character.          *)

NL == [newline |-> TRUE]
Column(name) == [column |-> name]
Number(x) == [number |-> x]
Text(string) == [text |-> string]
None == "None"
Times == {None, "2024-01-01T00:00Z"}

\* product(range(shape[0]), range(shape[1])): the first index is the outer one
IndexOrder(shape) ==
    [k \in 1 .. shape[1] * shape[2] |-> <<(k - 1) \div shape[2], (k - 1) % shape[2]>>]

\* "latitude, longitude, value", with ", datetime" when a time is given
HeaderText(time) ==
    <<Column("latitude"), Column("longitude"), Column("value")>>
        \o (IF time # None THEN <<Column("datetime")>> ELSE <<>>)

\* f"{value:.20f}"
Fixed20(value) == [decimals |-> 20, of |-> value]

\* the writes of one pass of the loop over the cells
RowText(self, heap, index, time) ==
    LET polar_location == index_to_polar(self, index)
    IN  <<Number(Latitude(polar_location)), Number(Longitude(polar_location)),
          Fixed20(Item(heap, self.data, index))>>
            \o (IF time # None THEN <<Text(time), NL>> ELSE <<>>)
            \o <<NL>>

RECURSIVE RowsText(_, _, _, _)
RowsText(self, heap, order, time) ==
    IF order = <<>>
    THEN <<>>
    ELSE RowText(self, heap, Head(order), time) \o RowsText(self, heap, Tail(order), time)

\* everything one call of save_as_csv writes
save_as_csv(self, heap, time, append) ==
    (IF ~append THEN HeaderText(time) \o <<NL>> ELSE <<>>)
        \o RowsText(self, heap, IndexOrder(self.data.shape), time)

\* open(path, "a" if append else "w") and the writes
SaveAsCsv(time, append) ==
    /\ Len(saves) < MaxSaves
    /\ LET text == save_as_csv(bands[Root], buffers, time, append)
       IN  file' = IF append THEN file \o text ELSE text
    /\ saves' = IF append
                THEN Append(saves, [time |-> time, append |-> append])
                ELSE <<[time |-> time, append |-> append]>>
    /\ ret' = [kind |-> "csv", of |-> Root]
    /\ UNCHANGED <<bands, buffers, nwrites, image, cdf_calls, input, frame>>

SaveNew == \E time \in Times : SaveAsCsv(time, FALSE)
SaveAppend == \E time \in Times : SaveAsCsv(time, TRUE)

NextCsv == SaveNew \/ SaveAppend

SpecCsv == Init /\ [][NextCsv]_vars

\* the newline-terminated lines of a text, and what follows the last newline
Lines(text) ==
    LET newlines == {k \in 1 .. Len(text) : text[k] = NL}
        nth(r) == CHOOSE k \in newlines : Cardinality({m \in newlines : m <= k}) = r
        start(r) == IF r = 1 THEN 1 ELSE nth(r - 1) + 1
        end == IF newlines = {} THEN 0 ELSE nth(Cardinality(newlines))
    IN  [lines |-> [r \in 1 .. Cardinality(newlines) |-> SubSeq(text, start(r), nth(r) - 1)],
         rest |-> SubSeq(text, end + 1, Len(text))]

----------------------------------------------------------------------------
(* RasterBand.to_image *)

Min(S) == CHOOSE x \in S : \A y \in S : x <= y
Max(S) == CHOOSE x \in S : \A y \in S : x >= y

\* MinMaxScaler(feature_range=(0, 255)).fit_transform(X): each feature, that
\* is each column X[:, j], is scaled by its own minimum and maximum; a
\* column of zero range is scaled as if its range were 1
fit_transform(X) ==
    LET column(j) == {X[<<i, j>>] : i \in {index[1] : index \in DOMAIN X}}
        data_min(j) == Min(column(j))
        data_range(j) == Max(column(j)) - Min(column(j))
        scale(j) == Rat(255, IF data_range(j) = 0 THEN 1 ELSE data_range(j))
    IN  [index \in DOMAIN X |->
            RMul(RInt(X[index] - data_min(index[2])), scale(index[2]))]

\* numpy.uint8 of a float in [0, 255]: the fraction is cut off
uint8(x) == x[1] \div x[2]

\* Image.fromarray(uint8(image_data.transpose())): pixel [row, column]
to_image(self, heap) ==
    LET image_data == fit_transform(Contents(heap, self.data))
    IN  [pixel \in (0 .. self.data.shape[2] - 1) \X (0 .. self.data.shape[1] - 1) |->
            uint8(image_data[<<pixel[2], pixel[1]>>])]

InitImage ==
    \E W \in 1 .. MaxImageDim, H \in 1 .. MaxImageDim,
       width \in Extents, height \in Extents :
        \E cells \in [Indices(<<W, H>>) -> 0 .. MaxCellValue] :
            /\ buffers = <<cells>>
            /\ bands = (Root :> RasterBand(NewArray(W, H),
                                           Origin, width, height))
            /\ ret = [kind |-> "none"]
            /\ Unused

ToImage ==
    /\ image = <<>>
    /\ image' = to_image(bands[Root], buffers)
    /\ ret' = [kind |-> "image", of |-> Root]
    /\ UNCHANGED <<bands, buffers, nwrites, file, saves, cdf_calls, input, frame>>

NextImage == ToImage

SpecImage == InitImage /\ [][NextImage]_vars

----------------------------------------------------------------------------
(* RasterBand.from_gaussian_mixture.  A mixture is a sequence of           *)
(* components [weight, low, high]; a component stands for a distribution   *)
(* by its cdf alone, and the distributions used here are uniform on the    *)
(* box low..high, whose cdf is an exact rational.                          *)

Clamp01(x) == IF RLt(x, RZero) THEN RZero ELSE IF RLt(RInt(1), x) THEN RInt(1) ELSE x

\* gaussian.cdf(point): the mass at or below point in both coordinates
cdf(gaussian, point) ==
    RMul(Clamp01(RDiv(RSub(point[1], gaussian.low[1]),
                      RSub(gaussian.high[1], gaussian.low[1]))),
         Clamp01(RDiv(RSub(point[2], gaussian.low[2]),
                      RSub(gaussian.high[2], gaussian.low[2]))))

Box(weight, west, south, east, north) ==
    [weight |-> weight, low |-> <<west, south>>, high |-> <<east, north>>]

Mixtures ==
    { <<Box(RInt(1), Rat(-1, 2), Rat(-1, 2), Rat(1, 2), Rat(1, 2))>>,
      <<Box(RInt(1), RInt(-3), RInt(-1), RInt(2), RInt(4))>>,
      <<Box(Rat(1, 3), RInt(-1), RInt(-1), RZero, RInt(1)),
        Box(Rat(2, 3), RZero, RInt(-2), RInt(2), Rat(1, 2))>> }

\* location + 0.5 * vstack([sx * pixel_width, sy * pixel_height]), as a tuple
Corner(raster_band, location, sx, sy) ==
    <<RAdd(location.east, RMul(Rat(sx, 2), raster_band.pixel_width)),
      RAdd(location.north, RMul(Rat(sy, 2), raster_band.pixel_height))>>

\* the cache a component starts from, given the cache the one before it left:
\* cdf_raster = {} is inside the loop over the components
InitialCache_kept(previous) == previous

InitialCache(previous) == <<>>

\* if point not in cdf_raster: cdf_raster[point] = gaussian.cdf(point)
Cached(gaussian, locals, point) ==
    IF point \in DOMAIN locals.cdf_raster
    THEN locals
    ELSE [locals EXCEPT !.cdf_raster = @ @@ (point :> cdf(gaussian, point)),
                       !.calls = Append(@, point)]

\* one pass of the loop over the indices, for the component `gaussian`
CellPass(gaussian, locals, index) ==
    LET location == locals.raster_band.cartesian_locations[index]
        top_right == Corner(locals.raster_band, location, 1, 1)
        top_left == Corner(locals.raster_band, location, -1, 1)
        bottom_right == Corner(locals.raster_band, location, 1, -1)
        bottom_left == Corner(locals.raster_band, location, -1, -1)
        filled == Cached(gaussian,
                    Cached(gaussian,
                      Cached(gaussian,
                        Cached(gaussian, locals, top_right),
                        top_left),
                      bottom_right),
                    bottom_left)
    IN  [filled EXCEPT !.probabilities[locals.i] = @ @@
            (index :> RMul(gaussian.weight,
                           RAdd(RSub(RSub(filled.cdf_raster[top_right],
                                          filled.cdf_raster[top_left]),
                                     filled.cdf_raster[bottom_right]),
                                filled.cdf_raster[bottom_left])))]

RECURSIVE RSum(_)
RSum(numbers) == IF numbers = <<>> THEN RZero ELSE RAdd(Head(numbers), RSum(Tail(numbers)))

\* sum(probabilities, axis=0)
SumOverComponents(probabilities, shape) ==
    [index \in Indices(shape) |->
        RSum([k \in 1 .. Len(probabilities) |-> probabilities[k][index]])]

\* cls(data, origin, width, height) called directly
construct(data, origin, width, height) ==
    IF RaisesZeroDivision(data)
    THEN [kind |-> "raise", error |-> "ZeroDivisionError"]
    ELSE [kind |-> "band", band |-> RasterBand(data, origin, width, height)]

\* cls(zeros(resolution), origin, width, height)
empty_raster_band(origin, width, height, resolution) ==
    IF resolution[1] < 0 \/ resolution[2] < 0
    THEN [kind |-> "raise", error |-> "ValueError"]
    ELSE construct(NewArray(resolution[1], resolution[2]), origin, width, height)

Idle == [pc |-> "idle"]

\* from_gaussian_mixture up to the loop over the components
MixtureStart ==
    /\ input.via = "mixture"
    /\ ret.kind = "none"
    /\ frame.pc = "idle"
    /\ LET r == empty_raster_band(Origin, input.width, input.height, input.resolution)
       IN  IF r.kind = "raise"
           THEN /\ ret' = r
                /\ UNCHANGED frame
           ELSE /\ ret' = [kind |-> "running"]
                /\ frame' = [pc |-> "components", raster_band |-> r.band, i |-> 0,
                             order |-> <<>>, cdf_raster |-> <<>>, calls |-> <<>>,
                             probabilities |-> <<>>]
    /\ UNCHANGED <<bands, buffers, nwrites, file, saves, image, cdf_calls, input>>

\* the next component: its cache and the start of its loop over the indices
MixtureComponent ==
    /\ frame.pc = "components"
    /\ frame.i < Len(input.mixture)
    /\ frame' = [frame EXCEPT !.pc = "cells",
                              !.i = @ + 1,
                              !.cdf_raster = InitialCache(@),
                              !.calls = <<>>,
                              !.probabilities = Append(@, <<>>),
                              !.order = IndexOrder(frame.raster_band.data.shape)]
    /\ UNCHANGED <<bands, buffers, ret, nwrites, file, saves, image, cdf_calls, input>>

\* one cell of the current component
MixtureCell ==
    /\ frame.pc = "cells"
    /\ LET after == CellPass(input.mixture[frame.i], frame, Head(frame.order))
       IN  IF Tail(frame.order) = <<>>
           THEN /\ frame' = [after EXCEPT !.order = <<>>, !.pc = "components"]
                /\ cdf_calls' = Append(cdf_calls, after.calls)
           ELSE /\ frame' = [after EXCEPT !.order = Tail(@)]
                /\ UNCHANGED cdf_calls
    /\ UNCHANGED <<bands, buffers, ret, nwrites, file, saves, image, input>>

\* raster_band.data = sum(probabilities, axis=0); return raster_band
MixtureReturn ==
    /\ frame.pc = "components"
    /\ frame.i = Len(input.mixture)
    /\ bands' = (Root :> [frame.raster_band EXCEPT !.data.buf = 2])
    /\ buffers' = <<[index \in Indices(frame.raster_band.data.shape) |-> RZero],
                    SumOverComponents(frame.probabilities, frame.raster_band.data.shape)>>
    /\ ret' = [kind |-> "band"]
    /\ frame' = Idle
    /\ UNCHANGED <<nwrites, file, saves, image, cdf_calls, input>>

FromGaussianMixture ==
    \/ MixtureStart
    \/ MixtureComponent
    \/ MixtureCell
    \/ MixtureReturn

Construct ==
    /\ input.via = "init"
    /\ ret.kind = "none"
    /\ LET r == construct(NewArray(input.resolution[1], input.resolution[2]), Origin,
                          input.width, input.height)
       IN  IF r.kind = "raise"
           THEN /\ ret' = r
                /\ UNCHANGED <<bands, buffers>>
           ELSE /\ ret' = [kind |-> "band"]
                /\ bands' = (Root :> r.band)
                /\ buffers' = <<NewBuffer(input.resolution[1], input.resolution[2])>>
    /\ UNCHANGED <<nwrites, file, saves, image, cdf_calls, input, frame>>

NoBand ==
    /\ bands = <<>>
    /\ buffers = <<>>
    /\ ret = [kind |-> "none"]
    /\ nwrites = 0
    /\ file = <<>>
    /\ saves = <<>>
    /\ image = <<>>
    /\ cdf_calls = <<>>
    /\ frame = Idle

InitMixture ==
    /\ NoBand
    /\ \E mixture \in Mixtures, width \in Extents, height \in Extents,
          W \in 1 .. MaxDim, H \in 1 .. MaxDim :
            input = [via |-> "mixture", mixture |-> mixture, width |-> width,
                     height |-> height, resolution |-> <<W, H>>]

NextMixture == FromGaussianMixture

SpecMixture == InitMixture /\ [][NextMixture]_vars

\* the extents a caller may hand over, valid or not
AnyExtents == Extents \cup {RZero, RInt(-1)}

InitConstruct ==
    /\ NoBand
    /\ \E width \in AnyExtents, height \in AnyExtents :
          \/ \E W \in 0 .. MaxDim, H \in 0 .. MaxDim :
                input = [via |-> "init", width |-> width, height |-> height,
                         resolution |-> <<W, H>>]
          \/ \E W \in -1 .. MaxDim, H \in -1 .. MaxDim :
                input = [via |-> "mixture", width |-> width, height |-> height,
                         resolution |-> <<W, H>>,
                         mixture |-> <<Box(RInt(1), RInt(-1), RInt(-1), RInt(1), RInt(1))>>]

NextConstruct == Construct \/ FromGaussianMixture

SpecConstruct == InitConstruct /\ [][NextConstruct]_vars

(* C5: split() leaves its parent as it was, and the bands own their grids: *)
(* no step changes a band that exists, split() changes no cell, and an     *)
(* assignment to a cell of one band changes the data of no other band.     *)
C5_IndependentBands ==
    [][/\ \A p \in DOMAIN bands : p \in DOMAIN bands' /\ bands'[p] = bands[p]
       /\ ret'.kind \in {"self", "quads"} => buffers' = buffers
       /\ ret'.kind = "write" =>
             \A p \in DOMAIN bands \ {ret'.of} :
                 Contents(buffers', bands[p].data) = Contents(buffers, bands[p].data)
      ]_vars

(* C6: a file begun with append=False is 1 + W*H lines, each ended by a    *)
(* newline: the header (with datetime exactly when a time is given), then  *)
(* one row per cell in index order, i outer and j inner, ending with the   *)
(* time when one is given, and no blank line; every later append adds W*H  *)
(* rows and no header.                                                     *)
C6_CsvLines ==
    (saves # <<>> /\ ~saves[1].append) =>
        LET band == bands[Root]
            n == Cells(band)
            order == IndexOrder(band.data.shape)
            lines == Lines(file).lines
            row(index, time) ==
                <<Number(Latitude(index_to_polar(band, index))),
                  Number(Longitude(index_to_polar(band, index))),
                  Fixed20(Item(buffers, band.data, index))>>
                    \o (IF time # None THEN <<Text(time)>> ELSE <<>>)
        IN  /\ Lines(file).rest = <<>>
            /\ Len(lines) = 1 + n * Len(saves)
            /\ lines[1] = HeaderText(saves[1].time)
            /\ \A line \in 1 .. Len(lines) : lines[line] # <<>>
            /\ \A call \in 1 .. Len(saves) : \A k \in 1 .. n :
                  lines[1 + (call - 1) * n + k] = row(order[k], saves[call].time)

(* C8: to_image() scales by the minimum and maximum of the whole raster:   *)
(* the smallest cells become 0, the largest 255 (when the raster is not    *)
(* constant), equal cells get equal pixels, a larger cell never gets a     *)
(* smaller pixel, and cell (i, j) is pixel [row j, column i].              *)
C8_MinMaxPerRaster ==
    image # <<>> =>
        LET band == bands[Root]
            cells == Indices(band.data.shape)
            value(c) == Item(buffers, band.data, c)
            pixel(c) == image[<<c[2], c[1]>>]
            lowest == Min({value(c) : c \in cells})
            highest == Max({value(c) : c \in cells})
        IN  /\ DOMAIN image = (0 .. band.data.shape[2] - 1) \X (0 .. band.data.shape[1] - 1)
            /\ \A c \in cells :
                  /\ value(c) = lowest => pixel(c) = 0
                  /\ (value(c) = highest /\ lowest < highest) => pixel(c) = 255
                  /\ \A d \in cells :
                        /\ value(c) = value(d) => pixel(c) = pixel(d)
                        /\ value(c) < value(d) => pixel(c) <= pixel(d)

(* C7: a constructor call with a width, a height or a resolution that is   *)
(* not positive fails, and every band there is has at least one cell per   *)
(* axis, a positive extent and a positive pixel size.                      *)
C7_InvalidGeometryFails ==
    /\ ret.kind \in {"band", "raise"} =>
          ((\/ RLe(input.width, RZero) \/ RLe(input.height, RZero)
            \/ input.resolution[1] <= 0 \/ input.resolution[2] <= 0)
              => ret.kind = "raise")
    /\ \A p \in DOMAIN bands :
          /\ bands[p].data.shape[1] >= 1 /\ bands[p].data.shape[2] >= 1
          /\ RLt(RZero, bands[p].width) /\ RLt(RZero, bands[p].height)
          /\ RLt(RZero, bands[p].pixel_width) /\ RLt(RZero, bands[p].pixel_height)

\* the inclusion-exclusion of a function of points over the box west..east, south..north
Mass(f(_), west, south, east, north) ==
    RAdd(RSub(RSub(f(<<east, north>>), f(<<west, north>>)), f(<<east, south>>)),
         f(<<west, south>>))

====
